---------------------------- MODULE Spec2Model ----------------------------
(***************************************************************************)
(* Model of libcpab/core/tesselation.py: the construction of a             *)
(* Tesselation1D / Tesselation2D / Tesselation3D instance.                 *)
(*                                                                         *)
(* The state is the instance under construction (its attributes); there    *)
(* is one action per call made by Tesselation.__init__.  A raised Python   *)
(* exception ends the construction: pc = "raised", and exc holds its type *)
(* and the call that raised it.                                            *)
(*                                                                         *)
(* Numbers.  Every float of the program is held in fixed point: the float  *)
(* f is the integer f * Scale.  Scale is a multiple of 2 * n for every     *)
(* cell count n of the model, so every breakpoint of np.linspace and every *)
(* midpoint is held exactly.  The program compares floats with ==, and     *)
(* only floats read from the same linspace arrays (or the domain bounds,   *)
(* which linspace returns unchanged as its end points), so exact           *)
(* arithmetic decides every comparison as the floats do.                   *)
(*                                                                         *)
(* Matrices.  A numpy matrix is [ncols, rows]: its column count and the    *)
(* sequence of its rows; a row is the function from the columns it holds   *)
(* a non-zero entry in (0-based, as in the source) to that entry.          *)
(***************************************************************************)
EXTENDS Integers, Sequences, FiniteSets

VARIABLES
    ndim, n_params, nC,              \* set by the subclass __init__
    nc, domain_min, domain_max,      \* constructor arguments (lists, read with At)
    zero_boundary, volume_perservation,
    verts, cells,                    \* find_verts
    shared_v, shared_v_idx,          \* find_shared_verts, find_verts_outside
    L,                               \* the constraint matrix
    pc, exc                          \* position in __init__, raised exception

vars == << ndim, n_params, nC, nc, domain_min, domain_max, zero_boundary,
           volume_perservation, verts, cells, shared_v, shared_v_idx, L,
           pc, exc >>

config == << ndim, n_params, nC, nc, domain_min, domain_max, zero_boundary,
             volume_perservation >>

---------------------------------------------------------------------------
(* Bounds of the model. *)

\* a 1D grid has at most this many cells
MaxCells1D == 5
\* a 2D grid has at most this many cells (nc_x * nc_y)
MaxCells2D == 4
\* a 3D grid has at most this many boxes (nc_x * nc_y * nc_z)
MaxCells3D == 2
\* domain bounds are integers in 0..MaxCoord
MaxCoord == 2
\* the unrestricted configurations (invalid ones included): cell counts per
\* axis in 0..MaxCellsAny, domain bounds in 0..MaxCoordAny
MaxCellsAny == 2
MaxCoordAny == 1

RECURSIVE Fact(_)
Fact(n) == IF n <= 1 THEN 1 ELSE n * Fact(n - 1)

Max2(a, b) == IF a >= b THEN a ELSE b

\* fixed-point unit: a multiple of 2*n for every cell count n of the model
Scale == 2 * Fact(Max2(Max2(MaxCells1D, MaxCells2D), Max2(MaxCells3D, MaxCellsAny)))

\* the float x (an integer here) in fixed point
Real(x) == x * Scale
One == Real(1)

---------------------------------------------------------------------------
(* numpy and Python helpers *)

\* TRUE.  Used in the loops below so that the value of one iteration is
\* computed before the next iteration starts (TLC passes operator
\* arguments unevaluated, and a long loop would nest them too deeply).
Evaluated(x) == x = x

\* 0-based read of a Python list / numpy array held as a sequence
At(s, i) == s[i + 1]

Range(s) == { s[k] : k \in DOMAIN s }

\* np.prod of a list
RECURSIVE prod(_)
prod(s) == IF s = << >> THEN 1 ELSE Head(s) * prod(Tail(s))

\* np.linspace(start, stop, num): num equally spaced floats, the end points
\* exact; num = 1 gives [start].  start and stop are fixed-point values.
linspace(start, stop, num) ==
    [ k \in 1..num |->
        IF num = 1 THEN start
        ELSE start + ((k - 1) * (stop - start)) \div (num - 1) ]

\* the elements of a sequence, each once, in order of first occurrence
RECURSIVE Distinct(_)
Distinct(s) ==
    IF s = << >> THEN << >>
    ELSE LET r == Distinct(SubSeq(s, 1, Len(s) - 1))
             x == s[Len(s)]
         IN  IF x \in Range(r) THEN r ELSE Append(r, x)

\* np.zeros(shape=(0, w)), and a matrix of r zero rows
ZeroRow == << >>
zeros(r, w) == [ncols |-> w, rows |-> [k \in 1..r |-> ZeroRow]]

\* the entry of a row at column c
Entry(row, c) == IF c \in DOMAIN row THEN row[c] ELSE 0

\* row[start : start + Len(vals)] = vals, for a slice inside the row
SetSlice(row, start, vals) ==
    LET cols  == start .. (start + Len(vals) - 1)
        new(c) == IF c \in cols THEN vals[c - start + 1] ELSE row[c]
        keep  == { c \in (DOMAIN row) \cup cols : new(c) # 0 }
    IN  [ c \in keep |-> new(c) ]

\* the length of the slice a:b of an axis of length n (0 <= a <= b)
SliceLen(n, a, b) ==
    LET lo == IF a > n THEN n ELSE a
        hi == IF b > n THEN n ELSE b
    IN  IF hi > lo THEN hi - lo ELSE 0

\* np.concatenate((A, B), axis=0) raises unless the column counts agree
CanConcatenate(A, B) == A.ncols = B.ncols
\* np.concatenate((B, A), axis=0): the new block put first
concatenate_block_first(A, B) == [ncols |-> A.ncols, rows |-> B.rows \o A.rows]
concatenate(A, B) == [ncols |-> A.ncols, rows |-> A.rows \o B.rows]

Neg(v) == [k \in DOMAIN v |-> 0 - v[k]]

---------------------------------------------------------------------------
(* Subclass attributes: Tesselation1D/2D/3D.__init__ *)

NParams(d) == CASE d = 1 -> 2 [] d = 2 -> 6 [] d = 3 -> 12
SimplicesPerCell(d) == CASE d = 1 -> 1 [] d = 2 -> 4 [] d = 3 -> 6
NC(d, n) == SimplicesPerCell(d) * prod(n)

---------------------------------------------------------------------------
(* find_verts *)

\* Tesselation1D.find_verts
find_verts_1D ==
    LET Vx == linspace(Real(At(domain_min, 0)), Real(At(domain_max, 0)), At(nc, 0) + 1)
    IN  [ verts |-> [ n \in 1..At(nc, 0) |-> << <<Vx[n], One>>, <<Vx[n + 1], One>> >> ],
          cells |-> [ n \in 1..At(nc, 0) |-> n - 1 ],
          exc   |-> "none" ]

\* Tesselation2D.find_verts: the four triangles of cell (col j, row i)
Triangles2D(Vx, Vy, i, j) ==
    LET ul == << At(Vx, j),     At(Vy, i),     One >>
        ur == << At(Vx, j + 1), At(Vy, i),     One >>
        ll == << At(Vx, j),     At(Vy, i + 1), One >>
        lr == << At(Vx, j + 1), At(Vy, i + 1), One >>
        center == << (At(Vx, j) + At(Vx, j + 1)) \div 2,
                     (At(Vy, i) + At(Vy, i + 1)) \div 2, One >>
    IN  << <<center, ul, ur>>, <<center, ur, lr>>,
           <<center, lr, ll>>, <<center, ll, ul>> >>

find_verts_2D ==
    LET Vx == linspace(Real(At(domain_min, 0)), Real(At(domain_max, 0)), At(nc, 0) + 1)
        Vy == linspace(Real(At(domain_min, 1)), Real(At(domain_max, 1)), At(nc, 1) + 1)
        n  == 4 * At(nc, 1) * At(nc, 0)
        i(m) == ((m - 1) \div 4) \div At(nc, 0)
        j(m) == ((m - 1) \div 4) % At(nc, 0)
    IN  [ verts |-> [ m \in 1..n |-> Triangles2D(Vx, Vy, i(m), j(m))[((m - 1) % 4) + 1] ],
          cells |-> [ m \in 1..n |-> << j(m), i(m), (m - 1) % 4 >> ],
          exc   |-> "none" ]

\* Tesselation3D.find_verts: the six entries of box (col k, row j, depth i)
Pyramids3D(Vx, Vy, Vz, i, j, k) ==
    LET cnt == << (At(Vx, k) + At(Vx, k + 1)) \div 2,
                  (At(Vy, j) + At(Vy, j + 1)) \div 2,
                  (At(Vz, i) + At(Vz, i + 1)) \div 2, One >>
        lnl == << At(Vx, k),     At(Vy, j),     At(Vz, i),     One >>
        lnu == << At(Vx, k),     At(Vy, j),     At(Vz, i + 1), One >>
        lfl == << At(Vx, k),     At(Vy, j + 1), At(Vz, i),     One >>
        lfu == << At(Vx, k),     At(Vy, j + 1), At(Vz, i + 1), One >>
        rnl == << At(Vx, k + 1), At(Vy, j),     At(Vz, i),     One >>
        rnu == << At(Vx, k + 1), At(Vy, j),     At(Vz, i + 1), One >>
        rfl == << At(Vx, k + 1), At(Vy, j + 1), At(Vz, i),     One >>
        rfu == << At(Vx, k + 1), At(Vy, j + 1), At(Vz, i + 1), One >>
    IN  << <<cnt, lnl, lnu, lfl, lfu>>,
           <<cnt, lnl, lnu, rnl, rnu>>,
           <<cnt, lnl, lfl, rnl, rnu>>,
           <<cnt, rnl, rnu, rfl, rfu>>,
           <<cnt, lfl, lfu, rfl, rfu>>,
           <<cnt, lnu, lfu, rnu, rfu>> >>

\* the breakpoints of the z axis, as find_verts computes them
Vz3D == linspace(Real(At(domain_min, 1)), Real(At(domain_max, 1)), At(nc, 1) + 1)

find_verts_3D ==
    LET Vx == linspace(Real(At(domain_min, 0)), Real(At(domain_max, 0)), At(nc, 0) + 1)
        Vy == linspace(Real(At(domain_min, 1)), Real(At(domain_max, 1)), At(nc, 1) + 1)
        Vz == Vz3D
        n  == 6 * At(nc, 2) * At(nc, 1) * At(nc, 0)
        box(m) == (m - 1) \div 6
        i(m) == box(m) \div (At(nc, 1) * At(nc, 0))
        j(m) == (box(m) \div At(nc, 0)) % At(nc, 1)
        k(m) == box(m) % At(nc, 0)
    IN  \* Vz[i+1] is read for every i < nc[2] whenever the loop body runs
        IF n > 0 /\ At(nc, 2) + 1 > Len(Vz)
        THEN [ verts |-> << >>, cells |-> << >>, exc |-> "IndexError" ]
        ELSE [ verts |-> [ m \in 1..n |->
                            Pyramids3D(Vx, Vy, Vz, i(m), j(m), k(m))[((m - 1) % 6) + 1] ],
               cells |-> [ m \in 1..n |-> << k(m), j(m), i(m), (m - 1) % 6 >> ],
               exc   |-> "none" ]

find_verts ==
    CASE ndim = 1 -> find_verts_1D
      [] ndim = 2 -> find_verts_2D
      [] ndim = 3 -> find_verts_3D

---------------------------------------------------------------------------
(* find_shared_verts *)

\* set(vi).intersection(vj)
intersection(vi, vj) == Range(vi) \cap Range(vj)

\* list(shared_verts): the elements of the set in a fixed order (Python's
\* set order is unspecified; here: the order of vi)
list_of(vi, S) == Distinct(SelectSeq(vi, LAMBDA v : v \in S))

\* (j, i) in shared_v_idx
Recorded(idx, i, j) == \E k \in DOMAIN idx : idx[k] = << i, j >>

\* shared_step without the test "(j,i) not in shared_v_idx"
shared_step_unchecked(acc, i, j) ==
    LET vi == At(verts, i)
        vj == At(verts, j)
        shared_verts == intersection(vi, vj)
    IN  IF Cardinality(shared_verts) = ndim
        THEN [ v   |-> Append(acc.v, list_of(vi, shared_verts)),
               idx |-> Append(acc.idx, << i, j >>) ]
        ELSE acc

\* the body of the inner loop for the pair (i, j)
shared_step(acc, i, j) ==
    LET vi == At(verts, i)
        vj == At(verts, j)
        shared_verts == intersection(vi, vj)
    IN  IF Cardinality(shared_verts) = ndim /\ ~Recorded(acc.idx, j, i)
        THEN [ v   |-> Append(acc.v, list_of(vi, shared_verts)),
               idx |-> Append(acc.idx, << i, j >>) ]
        ELSE acc

RECURSIVE shared_inner(_, _, _)
shared_inner(acc, i, j) ==
    IF j >= nC THEN acc
    ELSE LET nxt == shared_step(acc, i, j)
         IN  IF Evaluated(nxt) THEN shared_inner(nxt, i, j + 1) ELSE acc

RECURSIVE shared_outer(_, _)
shared_outer(acc, i) ==
    IF i >= nC THEN acc
    ELSE LET nxt == shared_inner(acc, i, 0)
         IN  IF Evaluated(nxt) THEN shared_outer(nxt, i + 1) ELSE acc

find_shared_verts == shared_outer([v |-> << >>, idx |-> << >>], 0)

---------------------------------------------------------------------------
(* find_verts_outside *)

\* v_aux[0] -= 10, v_aux[1] -= 10
GhostOffset == 10

Abs(x) == IF x < 0 THEN 0 - x ELSE x

left(mi, mj) ==
    At(mi, 0) = 0 /\ At(mj, 0) = 0 /\ At(mi, 2) = 3 /\ At(mj, 2) = 3
    /\ Abs(At(mi, 1) - At(mj, 1)) = 1

right(mi, mj) ==
    At(mi, 0) = At(nc, 0) - 1 /\ At(mj, 0) = At(nc, 0) - 1
    /\ At(mi, 2) = 1 /\ At(mj, 2) = 1
    /\ Abs(At(mi, 1) - At(mj, 1)) = 1

top(mi, mj) ==
    At(mi, 1) = 0 /\ At(mj, 1) = 0 /\ At(mi, 2) = 0 /\ At(mj, 2) = 0
    /\ Abs(At(mi, 0) - At(mj, 0)) = 1

bottom(mi, mj) ==
    At(mi, 1) = At(nc, 1) - 1 /\ At(mj, 1) = At(nc, 1) - 1
    /\ At(mi, 2) = 2 /\ At(mj, 2) = 2
    /\ Abs(At(mi, 0) - At(mj, 0)) = 1

\* v_aux with the offset always taken along the first axis
v_aux_first_axis(v, mi, mj) == [v EXCEPT ![1] = @ - Real(GhostOffset)]

\* the ghost vertex of a shared vertex v
v_aux(v, mi, mj) ==
    IF left(mi, mj) \/ right(mi, mj)
    THEN [v EXCEPT ![1] = @ - Real(GhostOffset)]
    ELSE [v EXCEPT ![2] = @ - Real(GhostOffset)]

\* the body of the inner loop for the pair (i, j)
outside_step(acc, i, j) ==
    LET vi == At(verts, i)
        vj == At(verts, j)
        shared_verts == intersection(vi, vj)
        mi == At(cells, i)
        mj == At(cells, j)
    IN  IF /\ Cardinality(shared_verts) = 1
           /\ (left(mi, mj) \/ right(mi, mj) \/ top(mi, mj) \/ bottom(mi, mj))
           /\ ~Recorded(acc.idx, j, i)
        THEN LET v == CHOOSE x \in shared_verts : TRUE
             IN  [ v   |-> Append(acc.v, << v, v_aux(v, mi, mj) >>),
                   idx |-> Append(acc.idx, << i, j >>) ]
        ELSE acc

RECURSIVE outside_inner(_, _, _)
outside_inner(acc, i, j) ==
    IF j >= nC THEN acc
    ELSE LET nxt == outside_step(acc, i, j)
         IN  IF Evaluated(nxt) THEN outside_inner(nxt, i, j + 1) ELSE acc

RECURSIVE outside_outer(_, _)
outside_outer(acc, i) ==
    IF i >= nC THEN acc
    ELSE LET nxt == outside_inner(acc, i, 0)
         IN  IF Evaluated(nxt) THEN outside_outer(nxt, i + 1) ELSE acc

\* Tesselation2D.find_verts_outside.  np.concatenate raises ValueError when
\* one of the two arrays is np.asarray([]) (1 dimension) and the other is not
find_verts_outside_2D ==
    LET found == outside_outer([v |-> << >>, idx |-> << >>], 0)
    IN  IF (Len(shared_v) = 0) # (Len(found.v) = 0)
        THEN [ v |-> shared_v, idx |-> shared_v_idx, exc |-> "ValueError" ]
        ELSE [ v   |-> shared_v \o found.v,
               idx |-> shared_v_idx \o found.idx,
               exc |-> "none" ]

find_verts_outside ==
    CASE ndim = 1 -> [ v |-> shared_v, idx |-> shared_v_idx, exc |-> "none" ]
      [] ndim = 2 -> find_verts_outside_2D
      [] ndim = 3 -> [ v |-> shared_v, idx |-> shared_v_idx,
                       exc |-> "NotImplementedError" ]

---------------------------------------------------------------------------
(* create_continuity_constrains *)

Zeros3 == << 0, 0, 0 >>

RECURSIVE Flatten(_)
Flatten(ss) == IF ss = << >> THEN << >> ELSE Head(ss) \o Flatten(Tail(ss))

\* create_continuity_constrains_1D with np.zeros(shape=(nC-1, 2*(nC-1)))
create_continuity_constrains_1D_narrow ==
    LET w == 2 * (nC - 1)
        row(idx) ==
            LET v == At(shared_v, idx)
            IN  SetSlice(ZeroRow, 2 * idx, At(v, 0) \o Neg(At(v, 0)))
    IN  IF nC - 1 < 0
        THEN [ exc |-> "ValueError", M |-> zeros(0, 0) ]
        ELSE IF Len(shared_v) > nC - 1
        THEN [ exc |-> "IndexError", M |-> zeros(0, 0) ]
        ELSE IF \E idx \in 0..(Len(shared_v) - 1) :
                    SliceLen(w, 2 * idx, 2 * (idx + 2)) # 4
        THEN [ exc |-> "ValueError", M |-> zeros(0, 0) ]
        ELSE [ exc |-> "none",
               M   |-> [ ncols |-> w,
                         rows  |-> [ r \in 1..(nC - 1) |->
                                       IF r <= Len(shared_v) THEN row(r - 1)
                                       ELSE ZeroRow ] ] ]

\* create_continuity_constrains_1D with np.zeros(shape=(nC, 2*nC))
create_continuity_constrains_1D_square ==
    LET w == 2 * nC
        row(idx) ==
            LET v == At(shared_v, idx)
            IN  SetSlice(ZeroRow, 2 * idx, At(v, 0) \o Neg(At(v, 0)))
    IN  IF Len(shared_v) > nC
        THEN [ exc |-> "IndexError", M |-> zeros(0, 0) ]
        ELSE [ exc |-> "none",
               M   |-> [ ncols |-> w,
                         rows  |-> [ r \in 1..nC |->
                                       IF r <= Len(shared_v) THEN row(r - 1)
                                       ELSE ZeroRow ] ] ]

\* Tesselation1D: np.zeros raises ValueError on a negative row count; the
\* row idx must exist (IndexError) and the slice must hold the four values
create_continuity_constrains_1D ==
    LET w == 2 * nC
        row(idx) ==
            LET v == At(shared_v, idx)
            IN  SetSlice(ZeroRow, 2 * idx, At(v, 0) \o Neg(At(v, 0)))
    IN  IF nC - 1 < 0
        THEN [ exc |-> "ValueError", M |-> zeros(0, 0) ]
        ELSE IF Len(shared_v) > nC - 1
        THEN [ exc |-> "IndexError", M |-> zeros(0, 0) ]
        ELSE IF \E idx \in 0..(Len(shared_v) - 1) :
                    SliceLen(w, 2 * idx, 2 * (idx + 2)) # 4
        THEN [ exc |-> "ValueError", M |-> zeros(0, 0) ]
        ELSE [ exc |-> "none",
               M   |-> [ ncols |-> w,
                         rows  |-> [ r \in 1..(nC - 1) |->
                                       IF r <= Len(shared_v) THEN row(r - 1)
                                       ELSE ZeroRow ] ] ]

\* Tesselation2D: the four rows of the pair recorded at position count
continuity_rows_2D(count) ==
    LET i  == At(At(shared_v_idx, count), 0)
        j  == At(At(shared_v_idx, count), 1)
        xa == At(At(shared_v, count), 0)
        xb == At(At(shared_v, count), 1)
        two(first, second) ==
            SetSlice(SetSlice(ZeroRow, 6 * i, first), 6 * j, second)
    IN  << two(xa \o Zeros3, Neg(xa) \o Zeros3),
           two(Zeros3 \o xa, Zeros3 \o Neg(xa)),
           two(xb \o Zeros3, Neg(xb) \o Zeros3),
           two(Zeros3 \o xb, Zeros3 \o Neg(xb)) >>

create_continuity_constrains_2D ==
    [ exc |-> "none",
      M   |-> [ ncols |-> 6 * nC,
                rows  |-> Flatten([ n \in 1..Len(shared_v_idx) |->
                                      continuity_rows_2D(n - 1) ]) ] ]

\* continuity_rows_3D with index2 = n_params*j, without the offset of k
continuity_rows_3D_unshifted(idx) ==
    LET i == At(At(shared_v_idx, idx), 0)
        j == At(At(shared_v_idx, idx), 1)
        row(vidx, k) ==
            LET index1 == n_params * i + k * (ndim + 1)
                index2 == n_params * j
                v == At(At(shared_v, idx), vidx)
            IN  SetSlice(SetSlice(ZeroRow, index1, v), index2, Neg(v))
    IN  [ m \in 1..(ndim * ndim) |-> row((m - 1) \div ndim, (m - 1) % ndim) ]

\* Tesselation3D: the ndim * ndim rows of the pair recorded at position idx
continuity_rows_3D(idx) ==
    LET i == At(At(shared_v_idx, idx), 0)
        j == At(At(shared_v_idx, idx), 1)
        row(vidx, k) ==
            LET index1 == n_params * i + k * (ndim + 1)
                index2 == n_params * j + k * (ndim + 1)
                v == At(At(shared_v, idx), vidx)
            IN  SetSlice(SetSlice(ZeroRow, index1, v), index2, Neg(v))
    IN  [ m \in 1..(ndim * ndim) |-> row((m - 1) \div ndim, (m - 1) % ndim) ]

create_continuity_constrains_3D ==
    [ exc |-> "none",
      M   |-> [ ncols |-> n_params * nC,
                rows  |-> Flatten([ n \in 1..Len(shared_v_idx) |->
                                      continuity_rows_3D(n - 1) ]) ] ]

create_continuity_constrains ==
    CASE ndim = 1 -> create_continuity_constrains_1D
      [] ndim = 2 -> create_continuity_constrains_2D
      [] ndim = 3 -> create_continuity_constrains_3D

---------------------------------------------------------------------------
(* create_zero_boundary_constrains *)

\* Tesselation1D: Ltemp[0,:2] and Ltemp[1,-2:]
create_zero_boundary_constrains_1D ==
    LET w == 2 * nC
    IN  IF SliceLen(w, 0, 2) # 2
        THEN [ exc |-> "ValueError", M |-> zeros(0, 0) ]
        ELSE [ exc |-> "none",
               M   |-> [ ncols |-> w,
                         rows  |-> << SetSlice(ZeroRow, 0,
                                         << Real(At(domain_min, 0)), One >>),
                                      SetSlice(ZeroRow, w - 2,
                                         << Real(At(domain_max, 0)), One >>) >> ] ]

\* Tesselation2D: the rows of vertex v of simplex c
zero_boundary_rows_2D(c, v) ==
    LET xmin == Real(At(domain_min, 0))
        ymin == Real(At(domain_min, 1))
        xmax == Real(At(domain_max, 0))
        ymax == Real(At(domain_max, 1))
    IN  (IF At(v, 0) = xmin \/ At(v, 0) = xmax
         THEN << SetSlice(ZeroRow, 6 * c, Zeros3 \o v) >> ELSE << >>)
        \o
        (IF At(v, 1) = ymin \/ At(v, 1) = ymax
         THEN << SetSlice(ZeroRow, 6 * c, v \o Zeros3) >> ELSE << >>)

create_zero_boundary_constrains_2D ==
    [ exc |-> "none",
      M   |-> [ ncols |-> 6 * nC,
                rows  |-> Flatten([ n \in 1..nC |->
                            Flatten([ m \in 1..Len(At(verts, n - 1)) |->
                               zero_boundary_rows_2D(n - 1,
                                   At(At(verts, n - 1), m - 1)) ]) ]) ] ]

Min2(a, b) == IF a <= b THEN a ELSE b

\* Tesselation3D: the iterations of the three loop nests, in order.  Each
\* is the simplex c_idx written to, the vertex vrt as numerators over
\* denominators, and the axis selector.
zero_boundary_iterations_3D ==
    LET nx == At(nc, 0)
        ny == At(nc, 1)
        nz == At(nc, 2)
        xy == [ m \in 1..(2 * (ny + 1) * (nx + 1)) |->
                LET i == IF (m - 1) \div ((ny + 1) * (nx + 1)) = 0 THEN 0 ELSE nz - 1
                    j == ((m - 1) \div (nx + 1)) % (ny + 1)
                    k == (m - 1) % (nx + 1)
                IN  [ c_idx |-> 6 * (nx * ny * i + nx * Min2(j, ny - 1) + Min2(k, nx - 1))
                                + (IF i = 0 THEN 2 ELSE 3),
                      num |-> << k, j, i >>, den |-> << nx, ny, nz - 1 >>,
                      sel |-> << 0, 0, One >> ] ]
        xz == [ m \in 1..(2 * (nz + 1) * (nx + 1)) |->
                LET j == IF (m - 1) \div ((nz + 1) * (nx + 1)) = 0 THEN 0 ELSE ny - 1
                    i == ((m - 1) \div (nx + 1)) % (nz + 1)
                    k == (m - 1) % (nx + 1)
                IN  [ c_idx |-> 6 * (nx * ny * Min2(i, nz - 1) + nx * j + Min2(k, nx - 1))
                                + (IF j = 0 THEN 1 ELSE 4),
                      num |-> << k, j, i >>, den |-> << nx, ny - 1, nz >>,
                      sel |-> << 0, One, 0 >> ] ]
        yz == [ m \in 1..(2 * (nz + 1) * (ny + 1)) |->
                LET k == IF (m - 1) \div ((nz + 1) * (ny + 1)) = 0 THEN 0 ELSE nx - 1
                    i == ((m - 1) \div (ny + 1)) % (nz + 1)
                    j == (m - 1) % (ny + 1)
                IN  [ c_idx |-> 6 * (nx * ny * Min2(i, nz - 1) + nx * Min2(j, ny - 1) + k)
                                + (IF k = 0 THEN 0 ELSE 5),
                      num |-> << k, j, i >>, den |-> << nx - 1, ny, nz >>,
                      sel |-> << One, 0, 0 >> ] ]
    IN  xy \o xz \o yz

\* the loop body at row sr, then the rest: a zero denominator raises
\* ZeroDivisionError; the six values of np.matrix(vrt + sel), shape (1, 6),
\* must fit the slice c_idx*12 : (c_idx+1)*12 or the assignment raises
RECURSIVE zero_boundary_run_3D(_, _, _)
zero_boundary_run_3D(its, sr, Ltemp) ==
    IF sr >= Len(its) THEN [ exc |-> "none", M |-> Ltemp ]
    ELSE LET it == At(its, sr)
         IN  IF \E a \in 1..3 : it.den[a] = 0
             THEN [ exc |-> "ZeroDivisionError", M |-> Ltemp ]
             ELSE IF sr >= Len(Ltemp.rows)
             THEN [ exc |-> "IndexError", M |-> Ltemp ]
             ELSE IF SliceLen(Ltemp.ncols, it.c_idx * 12, (it.c_idx + 1) * 12) # 6
             THEN [ exc |-> "ValueError", M |-> Ltemp ]
             ELSE LET vrt == [ a \in 1..3 |-> Real(it.num[a]) \div it.den[a] ]
                      nxt == [ Ltemp EXCEPT !.rows[sr + 1] =
                                 SetSlice(@, it.c_idx * 12, vrt \o it.sel) ]
                  IN  IF Evaluated(nxt) THEN zero_boundary_run_3D(its, sr + 1, nxt)
                      ELSE [ exc |-> "none", M |-> Ltemp ]

create_zero_boundary_constrains_3D ==
    LET nx == At(nc, 0)
        ny == At(nc, 1)
        nz == At(nc, 2)
        Ltemp == zeros(2 * ((nx + 1) * (ny + 1) + (nx + 1) * (nz + 1)
                            + (ny + 1) * (nz + 1)), n_params * nC)
    IN  zero_boundary_run_3D(zero_boundary_iterations_3D, 0, Ltemp)

create_zero_boundary_constrains ==
    CASE ndim = 1 -> create_zero_boundary_constrains_1D
      [] ndim = 2 -> create_zero_boundary_constrains_2D
      [] ndim = 3 -> create_zero_boundary_constrains_3D

---------------------------------------------------------------------------
(* create_zero_trace_constrains *)

\* eye_row with the zero column put first:
\* np.concatenate((np.zeros((ndim, 1)), np.eye(ndim)), axis=1).flatten()
eye_row_zero_column_first ==
    [ m \in 1..(ndim * (ndim + 1)) |->
        IF (m - 1) \div (ndim + 1) + 1 = (m - 1) % (ndim + 1) THEN One ELSE 0 ]

\* np.concatenate((np.eye(ndim), np.zeros((ndim, 1))), axis=1).flatten()
eye_row ==
    [ m \in 1..(ndim * (ndim + 1)) |->
        IF (m - 1) \div (ndim + 1) = (m - 1) % (ndim + 1) THEN One ELSE 0 ]

create_zero_trace_constrains ==
    [ exc |-> "none",
      M   |-> [ ncols |-> n_params * nC,
                rows  |-> [ r \in 1..nC |->
                              SetSlice(ZeroRow, n_params * (r - 1), eye_row) ] ] ]

---------------------------------------------------------------------------
(* Configurations *)

Dimensions == { 1, 2, 3 }

MaxCells(d) == CASE d = 1 -> MaxCells1D [] d = 2 -> MaxCells2D [] d = 3 -> MaxCells3D

\* a valid configuration: positive cell counts, domain_min < domain_max
Valid ==
    /\ Len(nc) = ndim /\ Len(domain_min) = ndim /\ Len(domain_max) = ndim
    /\ \A a \in 1..ndim : nc[a] > 0 /\ domain_min[a] < domain_max[a]

NoException == [type |-> "none", raised_in |-> "none"]

\* the attributes before find_verts has run
Unbuilt ==
    /\ verts = << >> /\ cells = << >>
    /\ shared_v = << >> /\ shared_v_idx = << >>
    /\ L = zeros(0, 0)
    /\ pc = "find_verts" /\ exc = NoException

\* Tesselation{1,2,3}D.__init__ up to the first call of Tesselation.__init__
Construct(d, cellsets, coords) ==
    /\ ndim = d
    /\ n_params = NParams(d)
    /\ nc \in [1..d -> cellsets]
    /\ nC = NC(d, nc)
    /\ domain_min \in [1..d -> coords]
    /\ domain_max \in [1..d -> coords]
    /\ zero_boundary \in BOOLEAN
    /\ volume_perservation \in BOOLEAN
    /\ Unbuilt

\* every valid configuration within the bounds
Init ==
    \E d \in Dimensions :
        /\ Construct(d, 1..MaxCells(d), 0..MaxCoord)
        /\ prod(nc) <= MaxCells(d)
        /\ Valid

\* every configuration within the (smaller) bounds, valid or not
InitAny ==
    \E d \in Dimensions : Construct(d, 0..MaxCellsAny, 0..MaxCoordAny)

---------------------------------------------------------------------------
(* Tesselation.__init__, one action per call *)

Raise(e) == pc' = "raised" /\ exc' = [type |-> e, raised_in |-> pc]

FindVerts ==
    /\ pc = "find_verts"
    /\ LET r == find_verts
       IN  IF r.exc = "none"
           THEN /\ verts' = r.verts /\ cells' = r.cells
                /\ pc' = "find_shared_verts" /\ UNCHANGED exc
           ELSE /\ Raise(r.exc) /\ UNCHANGED << verts, cells >>
    /\ UNCHANGED << config, shared_v, shared_v_idx, L >>

FindSharedVerts ==
    /\ pc = "find_shared_verts"
    /\ LET r == find_shared_verts
       IN  /\ shared_v' = r.v
           /\ shared_v_idx' = r.idx
    /\ pc' = IF ~zero_boundary THEN "find_verts_outside"
             ELSE "create_continuity_constrains"
    /\ UNCHANGED << config, verts, cells, L, exc >>

FindVertsOutside ==
    /\ pc = "find_verts_outside"
    /\ LET r == find_verts_outside
       IN  IF r.exc = "none"
           THEN /\ shared_v' = r.v /\ shared_v_idx' = r.idx
                /\ pc' = "create_continuity_constrains" /\ UNCHANGED exc
           ELSE /\ Raise(r.exc) /\ UNCHANGED << shared_v, shared_v_idx >>
    /\ UNCHANGED << config, verts, cells, L >>

CreateContinuityConstrains ==
    /\ pc = "create_continuity_constrains"
    /\ LET r == create_continuity_constrains
       IN  IF r.exc = "none"
           THEN /\ L' = r.M
                /\ pc' = IF zero_boundary THEN "create_zero_boundary_constrains"
                         ELSE IF volume_perservation
                              THEN "create_zero_trace_constrains"
                              ELSE "done"
                /\ UNCHANGED exc
           ELSE /\ Raise(r.exc) /\ UNCHANGED L
    /\ UNCHANGED << config, verts, cells, shared_v, shared_v_idx >>

CreateZeroBoundaryConstrains ==
    /\ pc = "create_zero_boundary_constrains"
    /\ LET r == create_zero_boundary_constrains
       IN  IF r.exc # "none"
           THEN /\ Raise(r.exc) /\ UNCHANGED L
           ELSE IF ~CanConcatenate(L, r.M)
           THEN /\ Raise("ValueError") /\ UNCHANGED L
           ELSE /\ L' = concatenate(L, r.M)
                /\ pc' = IF volume_perservation
                         THEN "create_zero_trace_constrains" ELSE "done"
                /\ UNCHANGED exc
    /\ UNCHANGED << config, verts, cells, shared_v, shared_v_idx >>

CreateZeroTraceConstrains ==
    /\ pc = "create_zero_trace_constrains"
    /\ LET r == create_zero_trace_constrains
       IN  IF ~CanConcatenate(L, r.M)
           THEN /\ Raise("ValueError") /\ UNCHANGED L
           ELSE /\ L' = concatenate(L, r.M)
                /\ pc' = "done"
                /\ UNCHANGED exc
    /\ UNCHANGED << config, verts, cells, shared_v, shared_v_idx >>

Next ==
    \/ FindVerts
    \/ FindSharedVerts
    \/ FindVertsOutside
    \/ CreateContinuityConstrains
    \/ CreateZeroBoundaryConstrains
    \/ CreateZeroTraceConstrains

Spec == Init /\ [][Next]_vars

SpecAny == InitAny /\ [][Next]_vars

---------------------------------------------------------------------------
(* Properties *)

\* the call named step has returned or raised
Returned(steps) == pc \in steps
RaisedIn(steps) == pc = "raised" /\ exc.raised_in \in steps

\* create_continuity_constrains has returned: self.L is assigned
ContinuityBuilt ==
    \/ Returned({ "create_zero_boundary_constrains",
                  "create_zero_trace_constrains", "done" })
    \/ RaisedIn({ "create_zero_boundary_constrains",
                  "create_zero_trace_constrains" })

\* the row whose entry at each column c of cols is val(c), 0 elsewhere
ExpectRow(cols, val(_)) == [ c \in { x \in cols : val(x) # 0 } |-> val(c) ]

\* C1: for a valid configuration, once L is assigned it has n_params * nC
\* columns (n_params = 2, 6, 12 and nC = nc, 4 nc_x nc_y, 6 nc_x nc_y nc_z
\* for dimension 1, 2, 3), and so has it after every block appended: every
\* row of L lies within these columns.
C1_ColumnCount ==
    (Valid /\ ContinuityBuilt) =>
        LET np == IF ndim = 1 THEN 2 ELSE IF ndim = 2 THEN 6 ELSE 12
            n  == IF ndim = 1 THEN nc[1]
                  ELSE IF ndim = 2 THEN 4 * nc[1] * nc[2]
                  ELSE 6 * nc[1] * nc[2] * nc[3]
        IN  /\ n_params = np
            /\ nC = n
            /\ L.ncols = np * n
            /\ \A r \in DOMAIN L.rows : DOMAIN L.rows[r] \subseteq 0..(np * n - 1)

C1_Witness ==
    /\ Valid /\ pc = "done" /\ ndim = 2
    /\ zero_boundary /\ volume_perservation
    /\ L.ncols = 6 * nC /\ Len(L.rows) > nC

\* C2: the recorded adjacency list holds no simplex pair twice, in either
\* orientation, and every recorded pair (i, j) has i < j.
C2_AdjacencyDeduplicated ==
    Valid =>
        \A k \in DOMAIN shared_v_idx :
            /\ shared_v_idx[k][1] < shared_v_idx[k][2]
            /\ \A l \in DOMAIN shared_v_idx :
                  l # k => /\ shared_v_idx[l] # shared_v_idx[k]
                           /\ shared_v_idx[l] # << shared_v_idx[k][2], shared_v_idx[k][1] >>

C2_Witness ==
    /\ Valid /\ pc = "done" /\ ndim = 2 /\ ~zero_boundary
    /\ nc = << 2, 2 >>
    /\ Len(shared_v_idx) = 24

\* C3: a valid 1D tesselation of n cells is built without an exception; L
\* has 2n columns, n-1 rows after the continuity block, 2 more after the
\* zero-boundary block and n more after the trace block; n = 5 with both
\* flags gives 11 rows and 10 columns.
C3_RowCount1D ==
    (Valid /\ ndim = 1) =>
        LET n  == nc[1]
            zb == IF zero_boundary THEN 2 ELSE 0
            vp == IF volume_perservation THEN n ELSE 0
        IN  /\ pc # "raised"
            /\ ContinuityBuilt => L.ncols = 2 * n
            /\ pc = "create_zero_boundary_constrains" => Len(L.rows) = n - 1
            /\ pc = "create_zero_trace_constrains" => Len(L.rows) = (n - 1) + zb
            /\ pc = "done" => Len(L.rows) = (n - 1) + zb + vp
            /\ (pc = "done" /\ n = 5 /\ zero_boundary /\ volume_perservation)
                  => (Len(L.rows) = 11 /\ L.ncols = 10)

C3_Witness ==
    /\ ndim = 1 /\ nc = << 5 >> /\ domain_min = << 0 >> /\ domain_max = << 1 >>
    /\ zero_boundary /\ volume_perservation
    /\ pc = "done"
    /\ Len(L.rows) = 11 /\ L.ncols = 10

\* 2D: the k-th breakpoint of axis a (0 = x, 1 = y), the simplex number of
\* sub-triangle sub of cell (col, row)
Breakpoint(a, k) ==
    Real(At(domain_min, a))
      + (k * (Real(At(domain_max, a)) - Real(At(domain_min, a)))) \div At(nc, a)
Simplex2D(col, row, sub) == 4 * (row * At(nc, 0) + col) + sub

\* the recorded pairs whose second shared vertex is no vertex of simplex i
VirtualPairs ==
    { k \in DOMAIN shared_v_idx :
        shared_v[k][2] \notin Range(At(verts, shared_v_idx[k][1])) }

\* 2D: the virtual pairs along the four outer edges, each with its real
\* shared vertex and that vertex moved by 10 across the edge
ExpectedVirtual2D ==
    LET nx == At(nc, 0)
        ny == At(nc, 1)
        X(k) == Breakpoint(0, k)
        Y(k) == Breakpoint(1, k)
        Xedge(col, sub, x) ==
            { [ pair   |-> << Simplex2D(col, r, sub), Simplex2D(col, r + 1, sub) >>,
                shared |-> << << x, Y(r + 1), One >>,
                              << x - 10 * One, Y(r + 1), One >> >> ] : r \in 0..(ny - 2) }
        Yedge(row, sub, y) ==
            { [ pair   |-> << Simplex2D(c, row, sub), Simplex2D(c + 1, row, sub) >>,
                shared |-> << << X(c + 1), y, One >>,
                              << X(c + 1), y - 10 * One, One >> >> ] : c \in 0..(nx - 2) }
    IN  Xedge(0, 3, X(0)) \cup Xedge(nx - 1, 1, X(nx))
          \cup Yedge(0, 0, Y(0)) \cup Yedge(ny - 1, 2, Y(ny))

\* 2D: a continuity row of the pair (i, j) for vertex v and output
\* component k
ContinuityRow2D(i, j, v, k) ==
    LET ci == (6 * i + 3 * k) .. (6 * i + 3 * k + 2)
        cj == (6 * j + 3 * k) .. (6 * j + 3 * k + 2)
        val(c) == IF c \in ci THEN v[c - (6 * i + 3 * k) + 1]
                  ELSE 0 - v[c - (6 * j + 3 * k) + 1]
    IN  ExpectRow(ci \cup cj, val)

\* C4: in 2D with zero_boundary disabled, once find_verts_outside has
\* returned, the virtual pairs recorded are exactly one per pair of
\* neighbouring boundary-facing triangles along the four outer edges,
\* 2(nx-1) + 2(ny-1) in all (4 for the grid [2,2]), each with the shared
\* vertices (real vertex, real vertex moved by 10 across the edge); once the
\* continuity block is built, L holds continuity rows for each of them.
C4_VirtualAdjacency ==
    (/\ Valid /\ ndim = 2 /\ ~zero_boundary
     /\ Returned({ "create_continuity_constrains",
                   "create_zero_trace_constrains", "done" })) =>
        /\ Cardinality(VirtualPairs) = 2 * (At(nc, 0) - 1) + 2 * (At(nc, 1) - 1)
        /\ { [ pair |-> shared_v_idx[k], shared |-> shared_v[k] ] : k \in VirtualPairs }
              = ExpectedVirtual2D
        /\ nc = << 2, 2 >> => Cardinality(VirtualPairs) = 4
        /\ ContinuityBuilt =>
              { ContinuityRow2D(shared_v_idx[p][1], shared_v_idx[p][2], shared_v[p][n], k) :
                  p \in VirtualPairs, n \in 1..2, k \in 0..1 } \subseteq Range(L.rows)

C4_Witness ==
    /\ Valid /\ ndim = 2 /\ ~zero_boundary /\ nc = << 2, 2 >>
    /\ pc = "done"
    /\ Cardinality(VirtualPairs) = 4
    /\ Len(L.rows) >= 4 * 24

\* C5: a construction with an invalid configuration (a non-positive cell
\* count, or domain_min >= domain_max on some axis) never completes.
C5_InvalidConfigurationRejected == ~Valid => pc # "done"

\* C6: every entry of the simplex table is a tuple of exactly ndim + 1
\* vertices, each of ndim coordinates followed by a 1.
C6_SimplexVertexCount ==
    Valid =>
        \A n \in DOMAIN verts :
            /\ Len(verts[n]) = ndim + 1
            /\ \A m \in DOMAIN verts[n] :
                  Len(verts[n][m]) = ndim + 1 /\ verts[n][m][ndim + 1] = One

\* the trace row of simplex c: 1 at column n_params*c + k*(ndim+1) + k for
\* each k in [0, ndim), 0 elsewhere
TraceRow(c) ==
    ExpectRow({ n_params * c + k * (ndim + 1) + k : k \in 0..(ndim - 1) },
              LAMBDA x : One)

\* C7: with volume preservation enabled, the trace-zero block has
\* n_params * nC columns and exactly one row per simplex, in simplex order,
\* row c being the trace row of simplex c; when construction is done these
\* are the last nC rows of L, and no other row of L is a trace row.
C7_TraceRows ==
    (Valid /\ volume_perservation) =>
        LET block == create_zero_trace_constrains.M
            last  == Len(L.rows) - nC
        IN  /\ block.ncols = n_params * nC
            /\ Len(block.rows) = nC
            /\ \A c \in 0..(nC - 1) : block.rows[c + 1] = TraceRow(c)
            /\ pc = "done" =>
                  /\ last >= 0
                  /\ \A c \in 0..(nC - 1) : L.rows[last + c + 1] = TraceRow(c)
                  /\ \A r \in 1..last : \A c \in 0..(nC - 1) : L.rows[r] # TraceRow(c)

C7_Witness ==
    /\ Valid /\ volume_perservation /\ pc = "done"
    /\ ndim = 2 /\ nC = 16
    /\ L.rows[Len(L.rows)] = [ c \in { 90, 94 } |-> One ]
    /\ L.rows[Len(L.rows) - 15] = [ c \in { 0, 4 } |-> One ]

\* C8: in 2D with zero_boundary enabled, once the zero-boundary block is
\* appended, for every simplex c and every vertex v of c whose coordinate on
\* axis a is the domain minimum or maximum of that axis, L holds the row
\* with v at columns [6c + 3a, 6c + 3a + 3) and zeros elsewhere.
C8_ZeroBoundary2D ==
    (/\ Valid /\ ndim = 2 /\ zero_boundary
     /\ Returned({ "create_zero_trace_constrains", "done" })) =>
        \A c \in 0..(nC - 1) : \A m \in 1..3 : \A a \in 0..1 :
            LET v == At(verts, c)[m]
            IN  (At(v, a) = Real(At(domain_min, a)) \/ At(v, a) = Real(At(domain_max, a)))
                  => \E r \in DOMAIN L.rows :
                        L.rows[r] = ExpectRow((6 * c + 3 * a) .. (6 * c + 3 * a + 2),
                                              LAMBDA x : v[x - (6 * c + 3 * a) + 1])

\* C9: in 3D with zero_boundary enabled, create_zero_boundary_constrains
\* returns and appends one non-zero row per boundary grid point of each of
\* the six faces, 2((nx+1)(ny+1) + (nx+1)(nz+1) + (ny+1)(nz+1)) rows, each
\* within the n_params columns of one simplex.
C9_ZeroBoundary3D ==
    (/\ Valid /\ ndim = 3 /\ zero_boundary
     /\ \/ Returned({ "create_zero_trace_constrains", "done" })
        \/ RaisedIn({ "create_zero_boundary_constrains" })) =>
        LET nx == At(nc, 0)
            ny == At(nc, 1)
            nz == At(nc, 2)
            R  == 2 * ((nx + 1) * (ny + 1) + (nx + 1) * (nz + 1) + (ny + 1) * (nz + 1))
            first == Len(L.rows) - R
                       - (IF pc = "done" /\ volume_perservation THEN nC ELSE 0)
        IN  /\ pc # "raised"
            /\ first >= 0
            /\ \A r \in (first + 1)..(first + R) :
                  /\ L.rows[r] # ZeroRow
                  /\ \E c \in 0..(nC - 1) :
                        DOMAIN L.rows[r] \subseteq (12 * c)..(12 * c + 11)

\* C10: find_verts returns a table of exactly nC simplices whose
\* coordinates on every axis a are the nc_a + 1 equally spaced breakpoints
\* from domain_min[a] to domain_max[a] and (for the centroids of 2D and 3D
\* cells) the midpoints of consecutive breakpoints.
C10_GridSpansDomain ==
    (Valid /\ pc # "find_verts") =>
        /\ ~RaisedIn({ "find_verts" })
        /\ Len(verts) = nC
        /\ \A a \in 0..(ndim - 1) :
              { At(verts[n][m], a) : n \in DOMAIN verts, m \in 1..(ndim + 1) }
                = { Breakpoint(a, k) : k \in 0..At(nc, a) }
                    \cup (IF ndim = 1 THEN { }
                          ELSE { (Breakpoint(a, k) + Breakpoint(a, k + 1)) \div 2 :
                                   k \in 0..(At(nc, a) - 1) })

\* the continuity row of the pair (i, j) for shared vertex v and output
\* dimension k: v at columns [i*n_params + k*(ndim+1), i*n_params +
\* (k+1)*(ndim+1)), -v at the same offsets within simplex j's columns
ContinuityRow(i, j, v, k) ==
    LET bi == i * n_params + k * (ndim + 1)
        bj == j * n_params + k * (ndim + 1)
        ci == bi .. (bi + ndim)
        cj == bj .. (bj + ndim)
        val(c) == IF c \in ci THEN v[c - bi + 1] ELSE 0 - v[c - bj + 1]
    IN  ExpectRow(ci \cup cj, val)

\* the number of shared vertices of the first n recorded pairs
RECURSIVE SharedCount(_)
SharedCount(n) == IF n = 0 THEN 0 ELSE Len(shared_v[n]) + SharedCount(n - 1)

\* the continuity rows of all recorded pairs
ExpectedContinuityRows ==
    UNION { { ContinuityRow(shared_v_idx[p][1], shared_v_idx[p][2], shared_v[p][n], k) :
                n \in DOMAIN shared_v[p], k \in 0..(ndim - 1) } :
            p \in DOMAIN shared_v_idx }

\* C11: for a valid configuration, once the continuity block is built it is
\* the first ndim * (number of shared vertices over all recorded pairs) rows
\* of L (all of L until a later block is appended); it holds, for each
\* recorded pair (i, j), each shared vertex v and each output dimension k,
\* exactly one row equal to the continuity row of (i, j, v, k), and no other
\* row.  In 1D the idx-th recorded pair is (idx, idx+1) and its row is row
\* idx of the block.
C11_ContinuityRows ==
    (Valid /\ ContinuityBuilt) =>
        LET B     == ndim * SharedCount(Len(shared_v))
            block == { L.rows[r] : r \in 1..B }
        IN  /\ Len(shared_v) = Len(shared_v_idx)
            /\ B <= Len(L.rows)
            /\ (\/ pc = "create_zero_boundary_constrains"
                \/ RaisedIn({ "create_zero_boundary_constrains" })
                \/ ~zero_boundary /\ pc = "create_zero_trace_constrains"
                \/ ~zero_boundary /\ ~volume_perservation /\ pc = "done")
                  => Len(L.rows) = B
            /\ block = ExpectedContinuityRows
            /\ Cardinality(block) = B
            /\ ndim = 1 =>
                  \A idx \in 0..(Len(shared_v_idx) - 1) :
                      /\ At(shared_v_idx, idx) = << idx, idx + 1 >>
                      /\ L.rows[idx + 1]
                           = ContinuityRow(idx, idx + 1, At(shared_v, idx)[1], 0)

C11_Witness ==
    /\ Valid /\ ndim = 3 /\ nc = << 2, 1, 1 >>
    /\ pc = "create_zero_boundary_constrains"
    /\ Len(shared_v_idx) >= 20
    /\ Len(L.rows) = 9 * Len(shared_v_idx)
    /\ L.rows[1] = ContinuityRow(0, 1, shared_v[1][1], 0)

\* the blocks the three builders return on the attributes of the state
ContinuityBlock == create_continuity_constrains.M.rows
ZeroBoundaryBlock == create_zero_boundary_constrains.M.rows
TraceBlock == create_zero_trace_constrains.M.rows

\* the zero-boundary block, the trace-zero block has been appended
ZeroBoundaryAppended == zero_boundary /\ Returned({ "create_zero_trace_constrains", "done" })
TraceAppended == volume_perservation /\ pc = "done"

\* the rows of L are the continuity block, then the zero-boundary block if
\* it has been appended, then the trace-zero block if it has been appended;
\* an appended block is not empty, and L is empty before the first block
C12_Layout ==
    Valid =>
        IF ContinuityBuilt
        THEN /\ L.rows = ContinuityBlock
                           \o (IF ZeroBoundaryAppended THEN ZeroBoundaryBlock ELSE << >>)
                           \o (IF TraceAppended THEN TraceBlock ELSE << >>)
             /\ ZeroBoundaryAppended => ZeroBoundaryBlock # << >>
             /\ TraceAppended => TraceBlock # << >>
        ELSE L.rows = << >>

\* one step of the construction: the step taken and its successor are
\* those of the fixed pipeline, the flags decide which steps are skipped,
\* the configuration is kept and the rows L already has stay in place
C12_Step ==
    /\ pc \notin { "done", "raised" }
    /\ pc' \in { "raised",
                 CASE pc = "find_verts" -> "find_shared_verts"
                   [] pc = "find_shared_verts" ->
                        IF zero_boundary THEN "create_continuity_constrains"
                        ELSE "find_verts_outside"
                   [] pc = "find_verts_outside" -> "create_continuity_constrains"
                   [] pc = "create_continuity_constrains" ->
                        IF zero_boundary THEN "create_zero_boundary_constrains"
                        ELSE IF volume_perservation THEN "create_zero_trace_constrains"
                        ELSE "done"
                   [] pc = "create_zero_boundary_constrains" ->
                        IF volume_perservation THEN "create_zero_trace_constrains"
                        ELSE "done"
                   [] pc = "create_zero_trace_constrains" -> "done" }
    /\ pc = "find_verts_outside" => ~zero_boundary
    /\ pc = "create_zero_boundary_constrains" => zero_boundary
    /\ pc = "create_zero_trace_constrains" => volume_perservation
    /\ UNCHANGED config
    /\ Len(L'.rows) >= Len(L.rows)
    /\ SubSeq(L'.rows, 1, Len(L.rows)) = L.rows
    /\ L'.rows # L.rows =>
          /\ pc \in { "create_continuity_constrains",
                      "create_zero_boundary_constrains",
                      "create_zero_trace_constrains" }
          /\ pc' # "raised"
    /\ (Valid /\ pc' # "raised"
          /\ pc \in { "create_zero_boundary_constrains",
                      "create_zero_trace_constrains" })
          => Len(L'.rows) > Len(L.rows)

\* C12: construction runs the fixed pipeline find_verts -> find_shared_verts
\* -> find_verts_outside (only if zero_boundary is disabled) ->
\* create_continuity_constrains -> create_zero_boundary_constrains (only if
\* zero_boundary is enabled) -> create_zero_trace_constrains (only if volume
\* preservation is enabled); the rows of L are always the continuity block,
\* then the zero-boundary block, then the trace-zero block, a block being
\* absent exactly when its flag is disabled, and no step alters the rows an
\* earlier step produced.
C12_Pipeline == [] C12_Layout /\ [][C12_Step]_vars

C12_Witness ==
    /\ Valid /\ ndim = 2 /\ nC = 16 /\ pc = "done"
    /\ zero_boundary /\ volume_perservation
    /\ Len(ContinuityBlock) > 0 /\ Len(ZeroBoundaryBlock) > 0
    /\ Len(L.rows) = Len(ContinuityBlock) + Len(ZeroBoundaryBlock) + 16
    /\ L.rows[1] = ContinuityBlock[1]
    /\ L.rows[Len(ContinuityBlock) + 1] = ZeroBoundaryBlock[1]
    /\ L.rows[Len(L.rows)] = TraceBlock[16]

==========================================================================
